---- MODULE Spec2Model ----
(***************************************************************************)
(* zmq-bw: a beacon that samples per-interface byte counters from sysfs    *)
(* and pushes the deltas to a collector over a ZeroMQ PUSH socket.         *)
(*                                                                         *)
(* The model follows src/zmq-bw.py: beacon() runs its start-up statements  *)
(* one at a time, SpeedDB constructs one Interface per name (each          *)
(* constructor polls once and drops the result), and the loop repeats      *)
(* Queue.send / time.sleep.  Every read of a counter file is one step, so  *)
(* a failure can strike between any two reads.                             *)
(***************************************************************************)
EXTENDS Integers, Sequences, FiniteSets, TLC

\* ---------------------------------------------------------------- bounds
\* Largest raw counter value a statistics file may hold in the model.
MaxVal == 1
\* Capacity of the PUSH socket's outbound queue (ZMQ_SNDHWM).
SndHwm == 1
\* Largest value of the wall clock, in whole seconds since start-up.
MaxClock == 1

Values == 0..MaxVal

\* ----------------------------------------------------------- program data
\* Interface.KEYS
KEYS == <<"rx_bytes", "tx_bytes">>

\* The positional `ifaces` arguments the command line may carry.
ArgIfaces == {<< >>, <<"eth0">>, <<"eth0", "wlan0">>}
\* What os.listdir('/sys/class/net/') may return at start-up.
Listings == {<< >>, <<"wlan0", "eth0">>}

\* argparse namespace of the `beacon` sub-command: key and client_key are
\* TRUE when the option was given (a non-empty path).
Args == [dry : BOOLEAN, key : BOOLEAN, client_key : BOOLEAN, ifaces : ArgIfaces]

VARIABLES
    args,      \* the parsed command line
    pc,        \* position of the single thread of control
    crypto,    \* beacon's `crypto`: TRUE for a Crypto object, FALSE for None
    z,         \* the PUSH socket of Queue: [open, curve, connected]
    sndbuf,    \* number of messages in the socket's outbound queue
    out,       \* where the current cycle's envelope went: none / stdout / zmq
    stderr,    \* number of 'crypto disabled' lines written to stderr
    speed,     \* SpeedDB.ifaces: sequence of [iface, mem]
    i,         \* index in speed.ifaces of the Interface being polled
    j,         \* index in KEYS of the counter being read
    snap,      \* per Interface, the dict its running poll() has built
    lastRaw,   \* history: per Interface, the last value read of each counter
    prevRaw,   \* history: per Interface, the value read before that one,
               \*   for the counters read by the running call
    err,       \* why the process terminated
    clock,     \* time.time(), in whole seconds
    when,      \* the 'when' field of the envelope Queue.send is building
    listed,    \* history: the listings os.listdir has returned
    before,    \* history: SpeedDB.ifaces as it was when the running send began
    reads,     \* history: counter reads made by the running send
    readAt,    \* history: clock value at the earliest of these reads, or -1
    sends,     \* history: envelopes emitted by the running send
    sleeps,    \* history: sleeps since the last envelope was emitted
    everOut,   \* history: an envelope has been emitted
    sentWhen,  \* history: 'when' of the last envelope emitted
    rec,       \* whether the two totals below are being recorded
    firstRaw,  \* history: per Interface, the readings of its constructor
    sum        \* history: per Interface, the total of the deltas emitted

\* The state of the program and of its socket.
prog == <<args, pc, crypto, z, sndbuf, out, stderr, speed, i, j, snap, err,
          clock, when>>

\* The history variables: they record what happened and steer nothing.
hist == <<lastRaw, prevRaw, listed, before, reads, readAt, sends, sleeps,
          everOut, sentWhen, rec, firstRaw, sum>>

vars == <<prog, hist>>

\* ------------------------------------------------------------ dictionaries
EmptyDict == << >>

\* dict.get(key, default)
Get(m, key, default) == IF key \in DOMAIN m THEN m[key] ELSE default

\* m[key] = x
Put(m, key, x) == [kk \in (DOMAIN m) \cup {key} |-> IF kk = key THEN x ELSE m[kk]]

\* ---------------------------------------------------------------- Interface
\* Interface._delta, line 30: delta = x - self.mem.get(key, 0)
DeltaAbsolute(mem, key, x) == x
DeltaBaselineZero(mem, key, x) == x - Get(mem, key, x)
DeltaOf(mem, key, x) == x - Get(mem, key, 0)

\* Interface._delta, line 31: self.mem[key] = x
MemKeepOnReset(mem, key, x) ==
    IF x < Get(mem, key, 0) THEN mem ELSE Put(mem, key, x)
MemAfter(mem, key, x) == Put(mem, key, x)

\* Interface._delta when self._poll(key) raises at line 29: lines 30-31 are
\* not reached, self.mem is as it was.
MemForget(mem, key) == [kk \in (DOMAIN mem) \ {key} |-> mem[kk]]
MemOnFail(mem, key) == mem

\* ------------------------------------------------------------------ beacon
\* beacon, line 85: if args.key and args.client_key
UseCryptoEither(a) == a.key \/ a.client_key
UseCrypto(a) == a.key /\ a.client_key

\* beacon, lines 88-90: the warning is printed unless args.dry
WarnsInverted(a) == a.dry
Warns(a) == ~a.dry

\* Queue.__init__, line 65: z.connect(dest), whatever self.dry is
Connects(dry) == TRUE

\* Queue.send, lines 73-76: the output channel of an envelope
Channel(dry) == IF dry THEN "stdout" ELSE "zmq"

\* Queue.send, line 76: send_json(data) passes no zmq.NOBLOCK flag, so the
\* call waits while the outbound queue is full; with the flag it would raise.
SendNoBlock == FALSE
SendBlocks == TRUE

\* Queue.send, line 70: 'when' is evaluated before 'data' (line 71); the
\* envelope emitted carries the value taken then, not the time of emission.
StampLate(taken, now) == now
Stamp(taken, now) == taken

\* beacon, line 93: args.ifaces if args.ifaces else os.listdir(...)
NamesFromListing(a, listing) == listing
Names(a, listing) == IF a.ifaces # << >> THEN a.ifaces ELSE listing

\* beacon, lines 96-98: after time.sleep(1) the loop calls z.send again.
AfterSleepResend == "emit"
AfterSleepStops == "done"
AfterSleep == "send"

\* A counter read that raises inside speed.pack() leaves Queue.send and
\* beacon: nothing catches it.
PackFailEmits == "emit"
PackFailPc == "crashed"

\* Interface._delta, line 31, seen from SpeedDB: only the mem of the
\* Interface polled changes (mem is set per instance, line 24).
SpeedSharedMem(sp, ii, key, x) ==
    [p \in DOMAIN sp |-> [sp[p] EXCEPT !.mem = MemAfter(@, key, x)]]
SpeedAfter(sp, ii, key, x) == [sp EXCEPT ![ii].mem = MemAfter(@, key, x)]

\* One row of zeros per Interface, one zero per key.
Zeros(n) == [p \in 1..n |-> [k \in {KEYS[m] : m \in DOMAIN KEYS} |-> 0]]

\* Element-wise total of two such tables; b may lack entries.
Plus(a, b) == [p \in DOMAIN a |-> [k \in DOMAIN a[p] |-> a[p][k] + Get(b[p], k, 0)]]

\* The process as beacon(args) is entered.
Fresh ==
    /\ pc = "start"
    /\ crypto = FALSE
    /\ z = [open |-> FALSE, curve |-> FALSE, connected |-> FALSE]
    /\ sndbuf = 0
    /\ out = "none"
    /\ stderr = 0
    /\ speed = << >>
    /\ i = 0
    /\ j = 0
    /\ snap = << >>
    /\ lastRaw = << >>
    /\ prevRaw = << >>
    /\ err = "none"
    /\ clock = 0
    /\ when = 0
    /\ listed = {}
    /\ before = << >>
    /\ reads = 0
    /\ readAt = -1
    /\ sends = 0
    /\ sleeps = 0
    /\ everOut = FALSE
    /\ sentWhen = 0
    /\ firstRaw = << >>
    /\ sum = << >>

Init ==
    /\ args \in Args
    /\ rec = FALSE
    /\ Fresh

\* beacon, lines 85-90.  zmq.auth.load_certificate raises on a missing or
\* malformed file.
LoadKeys ==
    /\ pc = "start"
    /\ IF UseCrypto(args)
       THEN \/ /\ crypto' = TRUE
               /\ pc' = "queue"
               /\ err' = err
            \/ /\ crypto' = crypto
               /\ pc' = "crashed"
               /\ err' = "KeyLoad"
       ELSE /\ crypto' = FALSE
            /\ pc' = "queue"
            /\ err' = err
    /\ stderr' = IF ~UseCrypto(args) /\ Warns(args) THEN stderr + 1 ELSE stderr
    /\ UNCHANGED <<args, z, sndbuf, out, speed, i, j, snap, clock, when, hist>>

\* beacon, line 92: Queue.__init__, lines 58-65.  z.connect raises on an
\* endpoint it cannot parse.
QueueInit ==
    /\ pc = "queue"
    /\ \/ /\ z' = [open |-> TRUE, curve |-> crypto, connected |-> Connects(args.dry)]
          /\ pc' = "resolve"
          /\ err' = err
       \/ /\ z' = [open |-> TRUE, curve |-> crypto, connected |-> FALSE]
          /\ pc' = "crashed"
          /\ err' = "Transport"
    /\ UNCHANGED <<args, crypto, sndbuf, out, stderr, speed, i, j, snap,
                   clock, when, hist>>

\* The iteration over self.ifaces (lines 13 and 16) is past its last element.
AtEnd(sp, ii) == ii > Len(sp)

\* beacon, line 93, and the start of SpeedDB.__init__, line 13: the list of
\* names is resolved once; every Interface starts with mem = {}.
Resolve ==
    /\ pc = "resolve"
    /\ \E listing \in (IF args.ifaces # << >> THEN {<< >>} ELSE Listings) :
          LET names == Names(args, listing)
              empty == [p \in 1..Len(names) |-> EmptyDict]
          IN  /\ listed' = IF args.ifaces # << >> THEN listed ELSE listed \cup {listing}
              /\ speed' = [p \in 1..Len(names) |-> [iface |-> names[p], mem |-> EmptyDict]]
              /\ snap' = empty
              /\ lastRaw' = empty
              /\ prevRaw' = empty
              /\ firstRaw' = empty
              /\ sum' = IF rec THEN Zeros(Len(names)) ELSE empty
              /\ i' = 1
              /\ j' = 1
              /\ pc' = IF Len(names) = 0 THEN "send" ELSE "construct"
    /\ UNCHANGED <<args, crypto, z, sndbuf, out, stderr, err, clock, when,
                   before, reads, readAt, sends, sleeps, everOut, sentWhen, rec>>

\* One successful self._delta(key) of Interface i, lines 29-32, reading x.
ReadOk(x) ==
    LET key == KEYS[j]
        mem == speed[i].mem
    IN  /\ snap' = [snap EXCEPT ![i] = Put(@, key, DeltaOf(mem, key, x))]
        /\ speed' = SpeedAfter(speed, i, key, x)
        /\ prevRaw' = [prevRaw EXCEPT ![i] = Put(@, key, Get(lastRaw[i], key, -1))]
        /\ lastRaw' = [lastRaw EXCEPT ![i] = Put(@, key, x)]

\* self._delta(key) of Interface i when open() or int() raises, line 35-36.
ReadFail ==
    LET key == KEYS[j]
    IN  /\ speed' = [speed EXCEPT ![i].mem = MemOnFail(@, key)]
        /\ err' = "Counter"
        /\ UNCHANGED <<snap, lastRaw, prevRaw, firstRaw, reads, readAt>>

\* Interface.__init__, lines 24-26, one counter at a time; the dict poll()
\* returns is dropped when the constructor returns.
ConstructRead ==
    /\ pc = "construct"
    /\ \/ \E x \in Values :
            /\ ReadOk(x)
            /\ IF j < Len(KEYS)
               THEN /\ j' = j + 1
                    /\ i' = i
                    /\ pc' = pc
               ELSE /\ j' = 1
                    /\ i' = i + 1
                    /\ pc' = IF AtEnd(speed, i + 1) THEN "send" ELSE "construct"
            /\ firstRaw' = IF rec THEN [firstRaw EXCEPT ![i] = Put(@, KEYS[j], x)]
                                  ELSE firstRaw
            /\ UNCHANGED <<err, reads, readAt>>
       \/ /\ ReadFail
          /\ pc' = "crashed"
          /\ UNCHANGED <<i, j>>
    /\ UNCHANGED <<args, crypto, z, sndbuf, out, stderr, clock, when, listed,
                   before, sends, sleeps, everOut, sentWhen, rec, sum>>

\* Queue.send, lines 68-70: the envelope's origin and timestamp are taken,
\* then speed.pack() starts with an empty dict.
SendBegin ==
    /\ pc = "send"
    /\ snap' = [p \in 1..Len(speed) |-> EmptyDict]
    /\ prevRaw' = [p \in 1..Len(speed) |-> EmptyDict]
    /\ i' = 1
    /\ j' = 1
    /\ out' = "none"
    /\ when' = clock
    /\ before' = speed
    /\ reads' = 0
    /\ readAt' = -1
    /\ sends' = 0
    /\ pc' = IF AtEnd(speed, 1) THEN "emit" ELSE "pack"
    /\ UNCHANGED <<args, crypto, z, sndbuf, stderr, speed, lastRaw, err, clock,
                   listed, sleeps, everOut, sentWhen, rec, firstRaw, sum>>

\* SpeedDB.pack, line 16, one counter at a time.
PackRead ==
    /\ pc = "pack"
    /\ \/ \E x \in Values :
            /\ ReadOk(x)
            /\ IF j < Len(KEYS)
               THEN /\ j' = j + 1
                    /\ i' = i
                    /\ pc' = pc
               ELSE /\ j' = 1
                    /\ i' = i + 1
                    /\ pc' = IF AtEnd(speed, i + 1) THEN "emit" ELSE "pack"
            /\ reads' = reads + 1
            /\ readAt' = IF readAt = -1 \/ clock < readAt THEN clock ELSE readAt
            /\ UNCHANGED <<err, firstRaw>>
       \/ /\ ReadFail
          /\ pc' = PackFailPc
          /\ UNCHANGED <<i, j>>
    /\ UNCHANGED <<args, crypto, z, sndbuf, out, stderr, clock, when, listed,
                   before, sends, sleeps, everOut, sentWhen, rec, sum>>

\* Queue.send, lines 73-76.  send_json on a PUSH socket blocks while the
\* outbound queue is at its high-water mark.
Emit ==
    /\ pc = "emit"
    /\ IF Channel(args.dry) = "zmq" /\ sndbuf >= SndHwm
       THEN \* the queue is full: wait (no step), or zmq.Again with NOBLOCK
            /\ ~SendBlocks
            /\ pc' = "crashed"
            /\ err' = "Again"
            /\ UNCHANGED <<out, sndbuf, sends, sleeps, everOut, sentWhen, sum>>
       ELSE /\ out' = Channel(args.dry)
            /\ sndbuf' = IF Channel(args.dry) = "zmq" THEN sndbuf + 1 ELSE sndbuf
            /\ pc' = "sleep"
            /\ sends' = sends + 1
            /\ sleeps' = 0
            /\ everOut' = TRUE
            /\ sentWhen' = Stamp(when, clock)
            /\ sum' = IF rec THEN Plus(sum, snap) ELSE sum
            /\ err' = err
    /\ UNCHANGED <<args, crypto, z, stderr, speed, i, j, snap, clock, when,
                   lastRaw, prevRaw, listed, before, reads, readAt, rec, firstRaw>>

\* beacon, line 98: time.sleep(1), then the loop starts over.
Sleep ==
    /\ pc = "sleep"
    /\ pc' = AfterSleep
    /\ sleeps' = sleeps + 1
    /\ UNCHANGED <<args, crypto, z, sndbuf, out, stderr, speed, i, j, snap,
                   err, clock, when, lastRaw, prevRaw, listed, before, reads,
                   readAt, sends, everOut, sentWhen, rec, firstRaw, sum>>

\* The socket's I/O thread hands the oldest queued message to the collector.
Deliver ==
    /\ sndbuf > 0
    /\ z.connected
    /\ sndbuf' = sndbuf - 1
    /\ UNCHANGED <<args, pc, crypto, z, out, stderr, speed, i, j, snap, err,
                   clock, when, hist>>

\* A second of wall-clock time passes.
Tick ==
    /\ clock < MaxClock
    /\ clock' = clock + 1
    /\ UNCHANGED <<args, pc, crypto, z, sndbuf, out, stderr, speed, i, j, snap,
                   err, when, hist>>

Next ==
    \/ LoadKeys
    \/ QueueInit
    \/ Resolve
    \/ ConstructRead
    \/ SendBegin
    \/ PackRead
    \/ Emit
    \/ Sleep
    \/ Deliver

Spec == Init /\ [][Next]_vars

\* The steps of the process itself, without its surroundings.
Beacon ==
    \/ LoadKeys
    \/ QueueInit
    \/ Resolve
    \/ ConstructRead
    \/ SendBegin
    \/ PackRead
    \/ Emit
    \/ Sleep

\* The process is scheduled whenever it can run, and the socket's I/O thread
\* keeps handing queued messages to the collector.
LiveSpec == Init /\ [][Next]_vars /\ WF_vars(Beacon) /\ WF_vars(Deliver)

\* The same program with the wall clock advancing between its steps, for the
\* command lines that name one interface.
ClockArgs == {a \in Args : a.ifaces = <<"eth0">>}

InitClock ==
    /\ args \in ClockArgs
    /\ rec = FALSE
    /\ Fresh

NextClock ==
    \/ Next
    \/ Tick

ClockSpec == InitClock /\ [][NextClock]_vars

\* The same program with the totals of the emitted deltas recorded, for the
\* command lines without keys that name one interface, or two in a dry run.
SumArgs == {a \in Args : /\ ~a.key /\ ~a.client_key
                          /\ \/ a.ifaces = <<"eth0">>
                             \/ a.dry /\ a.ifaces = <<"eth0", "wlan0">>}

InitSum ==
    /\ args \in SumArgs
    /\ rec = TRUE
    /\ Fresh

SumSpec == InitSum /\ [][Next]_vars

\* ------------------------------------------------------------ observations
\* The counters for which the running (or just finished) poll has a delta.
Polled == {pk \in (DOMAIN snap) \X {KEYS[n] : n \in DOMAIN KEYS} :
              pk[2] \in DOMAIN snap[pk[1]]}

\* The same, restricted to the counters that had been read before.
Repolled == {pk \in Polled : prevRaw[pk[1]][pk[2]] # -1}

\* speed.pack() has returned: every Interface has reported every key.
PackDone == pc \in {"emit", "sleep"}

\* ------------------------------------------------------------------ claims

\* C1: reset policy -- whenever a poll reads a value strictly smaller than
\* the one remembered from the previous poll, the delta it reports is the
\* value read itself.
C1_ResetReportsReading ==
    \A pk \in Repolled :
        lastRaw[pk[1]][pk[2]] < prevRaw[pk[1]][pk[2]]
            => snap[pk[1]][pk[2]] = lastRaw[pk[1]][pk[2]]

\* C2: every delta returned by Interface.poll() and every delta placed in a
\* snapshot by SpeedDB.pack() is >= 0.
C2_DeltasNonNegative ==
    \A pk \in Polled : snap[pk[1]][pk[2]] >= 0

\* C3: when a counter's reading is not smaller than its previous reading,
\* the poll reports the difference of the two readings.
C3_MonotoneDelta ==
    \A pk \in Repolled :
        lastRaw[pk[1]][pk[2]] >= prevRaw[pk[1]][pk[2]]
            => snap[pk[1]][pk[2]] = lastRaw[pk[1]][pk[2]] - prevRaw[pk[1]][pk[2]]

\* C3 witness: a complete snapshot holds the positive difference of two
\* readings of one counter and a zero for a counter that stayed at a
\* positive value.
C3_Witness ==
    /\ pc = "emit"
    /\ \E pk \in Repolled :
          /\ prevRaw[pk[1]][pk[2]] = 0
          /\ lastRaw[pk[1]][pk[2]] = MaxVal
          /\ snap[pk[1]][pk[2]] = MaxVal
    /\ \E pk \in Repolled :
          /\ prevRaw[pk[1]][pk[2]] = MaxVal
          /\ lastRaw[pk[1]][pk[2]] = MaxVal
          /\ snap[pk[1]][pk[2]] = 0

C5_MemIsLastReading ==
    /\ \A p \in DOMAIN lastRaw : \A k \in DOMAIN lastRaw[p] :
          Get(speed[p].mem, k, -1) = lastRaw[p][k]
    /\ \A pk \in Repolled :
          snap[pk[1]][pk[2]] = lastRaw[pk[1]][pk[2]] - prevRaw[pk[1]][pk[2]]

\* C5 witness: a reading below the previous one has been taken and is the
\* remembered value.
C5_Witness ==
    \E pk \in Repolled :
        /\ lastRaw[pk[1]][pk[2]] < prevRaw[pk[1]][pk[2]]
        /\ speed[pk[1]].mem[pk[2]] = lastRaw[pk[1]][pk[2]]

\* C6: a failing counter read ends the process and leaves every remembered
\* value, the failing counter's included, as it was before the read.
C6_FailKeepsMem ==
    [][(err = "none" /\ err' = "Counter")
          => (speed' = speed /\ pc' = "crashed")]_vars

\* C6 witness: a read failed on a counter that has a remembered value.
C6_Witness ==
    /\ err = "Counter"
    /\ pc = "crashed"
    /\ KEYS[j] \in DOMAIN speed[i].mem
    /\ speed[i].mem[KEYS[j]] = MaxVal

\* C7: when a counter read fails the snapshot call fails as a whole and no
\* envelope of that cycle is printed or handed to the socket.
C7_NoPartialSnapshot ==
    err = "Counter" => (pc = "crashed" /\ out = "none")

\* C7 witness: the second Interface fails during pack() after the first one
\* has been polled in full.
C7_Witness ==
    /\ err = "Counter"
    /\ Len(speed) = 2
    /\ i = 2
    /\ DOMAIN snap[1] = {"rx_bytes", "tx_bytes"}
    /\ prevRaw[1]["rx_bytes"] # -1
    /\ out = "none"

\* C8: a snapshot whose every reading equals the reading of the poll before
\* it carries delta 0 for every counter of every interface.
C8_UnchangedCountersZero ==
    (PackDone /\ \A pk \in Polled : lastRaw[pk[1]][pk[2]] = prevRaw[pk[1]][pk[2]])
        => \A pk \in Polled : snap[pk[1]][pk[2]] = 0

\* C8 witness: an emitted snapshot of two interfaces whose counters all
\* stand where the poll before left them, one of them at a positive value.
C8_Witness ==
    /\ pc = "sleep"
    /\ Len(speed) = 2
    /\ Cardinality(Polled) = 4
    /\ \A pk \in Polled : lastRaw[pk[1]][pk[2]] = prevRaw[pk[1]][pk[2]]
    /\ \E pk \in Polled : lastRaw[pk[1]][pk[2]] = MaxVal
    /\ \A pk \in Polled : snap[pk[1]][pk[2]] = 0

\* C9: with the dry flag set no connection to the destination is opened and
\* no message is enqueued on the socket; envelopes go to stdout only.
C9_DryNoNetwork ==
    args.dry => (~z.connected /\ sndbuf = 0 /\ out # "zmq")

\* C10: without the dry flag and without both keys the 'crypto disabled'
\* line is written exactly once, by the first start-up statement, never
\* again, and start-up goes on.
C10_WarnOnce ==
    (~args.dry /\ ~(args.key /\ args.client_key))
        => /\ stderr = (IF pc = "start" THEN 0 ELSE 1)
           /\ err # "KeyLoad"

\* C10 witness: only the server key was given, an envelope has been handed
\* to the socket after an earlier cycle, and one warning line exists.
C10_Witness ==
    /\ ~args.dry
    /\ args.key
    /\ ~args.client_key
    /\ pc = "sleep"
    /\ out = "zmq"
    /\ \E pk \in Repolled : pk \in Polled
    /\ stderr = 1

\* Queue.send is at send_json with the outbound queue at its capacity.
Blocked == pc = "emit" /\ Channel(args.dry) = "zmq" /\ sndbuf >= SndHwm

RowsComplete ==
    \A p \in DOMAIN snap : DOMAIN snap[p] = {KEYS[n] : n \in DOMAIN KEYS}

\* C12: each cycle of the loop reads every counter of every Interface once,
\* then emits one envelope with that snapshot, then sleeps once; a snapshot
\* is emitted at most once and exactly one sleep separates two emissions.
C12_CycleOrder ==
    /\ sends <= 1
    /\ sleeps <= 1
    /\ pc = "pack" => /\ sends = 0
                      /\ reads = (i - 1) * Len(KEYS) + (j - 1)
                      /\ everOut => sleeps = 1
    /\ pc = "emit" => /\ sends = 0
                      /\ reads = Len(speed) * Len(KEYS)
                      /\ RowsComplete
                      /\ everOut => sleeps = 1
    /\ pc = "sleep" => /\ sends = 1
                       /\ sleeps = 0
                       /\ reads = Len(speed) * Len(KEYS)
                       /\ RowsComplete
    /\ (pc = "send" /\ everOut) => (sends = 1 /\ sleeps = 1)

\* C12 witness: a later cycle has polled two interfaces in full, one sleep
\* after the previous envelope, and has not emitted yet.
C12_Witness ==
    /\ pc = "emit"
    /\ everOut
    /\ sleeps = 1
    /\ sends = 0
    /\ Len(speed) = 2
    /\ reads = 4

\* C13: the loop has no end of its own -- in every run in which no read, key
\* load or connect ever fails, the process being scheduled and the socket
\* draining, an envelope is emitted again and again and the loop starts over
\* again and again.
C13_RunsForever ==
    [](err = "none") => ([]<>(pc = "sleep") /\ []<>(pc = "send"))

\* C13 witness: after an emission and its sleep the loop is about to send
\* again, with no failure so far and the outbound queue full.
C13_Witness ==
    /\ pc = "send"
    /\ everOut
    /\ sleeps = 1
    /\ err = "none"
    /\ ~args.dry
    /\ sndbuf = SndHwm

\* beacon has not reached its while loop yet (lines 85-94).
Starting == pc \in {"start", "queue", "resolve", "construct"}

\* C14: a failure (key load, connect, counter read) terminates the process;
\* a terminated process stays terminated and emits nothing more; and when
\* the failure strikes during start-up no envelope has been or will be
\* emitted.
C14_FatalErrors ==
    [][ /\ err' # "none" => pc' = "crashed"
        /\ pc = "crashed" => /\ pc' = "crashed"
                             /\ out' = out
                             /\ sends' = sends
                             /\ everOut' = everOut
                             /\ sndbuf' <= sndbuf
                             /\ speed' = speed
        /\ (Starting /\ pc' = "crashed") => /\ err' \in {"KeyLoad", "Transport", "Counter"}
                                            /\ ~everOut'
                                            /\ out' = "none"
                                            /\ sndbuf' = 0
      ]_vars

\* C14 witness: a counter read failed in a cycle after an envelope had been
\* handed to the socket; the process is terminated.
C14_Witness ==
    /\ pc = "crashed"
    /\ err = "Counter"
    /\ everOut
    /\ ~args.dry
    /\ sends = 0

\* SpeedDB.pack, line 16: {x.iface: x.poll() for x in self.ifaces}; of two
\* Interfaces with one name the later one's dict stays.
Packed ==
    [n \in {speed[p].iface : p \in DOMAIN speed} |->
        snap[CHOOSE p \in DOMAIN speed :
                /\ speed[p].iface = n
                /\ \A q \in DOMAIN speed : speed[q].iface = n => q <= p]]

\* The interface names start-up had to go by: the command line's list, or
\* else what the one listing of /sys/class/net returned.
StartupNames == IF args.ifaces # << >> THEN {args.ifaces} ELSE listed

\* C15: every snapshot has the key set resolved at start-up (the listed
\* arguments, or the single listing taken then), each key with exactly
\* rx_bytes and tx_bytes; the directory is listed at most once, and never
\* when interfaces were named.
C15_KeySetFixed ==
    /\ Cardinality(listed) <= 1
    /\ args.ifaces # << >> => listed = {}
    /\ PackDone =>
          /\ Cardinality(StartupNames) = 1
          /\ \A names \in StartupNames :
                /\ DOMAIN Packed = {names[n] : n \in DOMAIN names}
                /\ [p \in DOMAIN speed |-> speed[p].iface] = names
          /\ \A n \in DOMAIN Packed : DOMAIN Packed[n] = {"rx_bytes", "tx_bytes"}

\* C15 witness: a snapshot after the first one, of the two interfaces that
\* the listing at start-up returned.
C15_Witness ==
    /\ pc = "emit"
    /\ everOut
    /\ args.ifaces = << >>
    /\ listed = {<<"wlan0", "eth0">>}
    /\ DOMAIN Packed = {"eth0", "wlan0"}

\* C16: the channel is encrypted exactly when both the server key and the
\* client key were given -- the Crypto object exists from the first start-up
\* statement on, and the socket carries the curve keys from its creation
\* on, in just that case, and neither ever changes afterwards.
C16_CryptoIffBothKeys ==
    /\ crypto = (pc # "start" /\ err # "KeyLoad" /\ args.key /\ args.client_key)
    /\ z.curve = (z.open /\ args.key /\ args.client_key)

\* C16 witness: with both keys given an envelope has gone out on a socket
\* that carries the curve keys, in a cycle after the first.
C16_Witness ==
    /\ args.key
    /\ args.client_key
    /\ z.curve
    /\ pc = "sleep"
    /\ out = "zmq"
    /\ \E pk \in Repolled : snap[pk[1]][pk[2]] # 0

\* C17: a step changes at most the remembered value of the one counter being
\* read -- every other counter of that Interface and every counter of every
\* other Interface keeps its value, and no Interface changes its name; the
\* delta a successful read reports is the reading minus that same counter's
\* previous reading (0 if it has none).
C17_TrackerIndependence ==
    [][ /\ \A p \in (DOMAIN speed) \cap (DOMAIN speed') :
              /\ speed'[p].iface = speed[p].iface
              /\ \A n \in DOMAIN KEYS :
                    (p # i \/ n # j)
                        => Get(speed'[p].mem, KEYS[n], -1) = Get(speed[p].mem, KEYS[n], -1)
        /\ (pc \in {"construct", "pack"} /\ <<i', j'>> # <<i, j>>)
              => /\ snap'[i][KEYS[j]] = lastRaw'[i][KEYS[j]] - Get(lastRaw[i], KEYS[j], 0)
                 /\ \A p \in DOMAIN snap : p # i => snap'[p] = snap[p]
      ]_vars

\* C17 witness: two Interfaces polled in full remember different values, and
\* the first one different values for its two counters.
C17_Witness ==
    /\ pc = "emit"
    /\ Len(speed) = 2
    /\ speed[1].mem["rx_bytes"] # speed[2].mem["rx_bytes"]
    /\ speed[1].mem["rx_bytes"] # speed[1].mem["tx_bytes"]
    /\ snap[1]["rx_bytes"] # snap[2]["rx_bytes"]

\* C18: telescoping -- between two sends, the total of the deltas emitted so
\* far for a counter is its latest reading minus the reading its Interface's
\* constructor took; what the constructor's own poll computed is in no
\* snapshot and in no total.
C18_Telescoping ==
    /\ (rec /\ pc \in {"sleep", "send"}) =>
          \A p \in DOMAIN sum : \A k \in DOMAIN sum[p] :
              sum[p][k] = lastRaw[p][k] - firstRaw[p][k]
    /\ (rec /\ ~everOut) =>
          \A p \in DOMAIN sum : \A k \in DOMAIN sum[p] : sum[p][k] = 0
    /\ (rec /\ PackDone) => Polled = Repolled

\* C18 witness: a counter that rose and then fell back to the constructor's
\* reading: its latest delta is negative and its total, over at least two
\* snapshots, is zero.
C18_Witness ==
    /\ rec
    /\ pc = "sleep"
    /\ Len(speed) = 2
    /\ \E pk \in Polled :
          /\ snap[pk[1]][pk[2]] < 0
          /\ sum[pk[1]][pk[2]] = 0
          /\ firstRaw[pk[1]][pk[2]] = 0

\* A counter read has failed inside speed.pack(), not inside a constructor.
PackFailed == err = "Counter" /\ before # << >>

\* C19: a snapshot that fails is not undone -- every counter read before
\* the failing one already remembers the value just read (its earlier value
\* plus a delta that no envelope carries), while the failing counter and
\* those after it remember what they did when the send began.
C19_FailedPackAdvances ==
    PackFailed =>
        /\ out = "none"
        /\ sends = 0
        /\ \A p \in DOMAIN speed : \A n \in DOMAIN KEYS :
              IF p < i \/ (p = i /\ n < j)
              THEN /\ KEYS[n] \in DOMAIN snap[p]
                   /\ Get(speed[p].mem, KEYS[n], -1) = lastRaw[p][KEYS[n]]
                   /\ Get(speed[p].mem, KEYS[n], -1)
                         = before[p].mem[KEYS[n]] + snap[p][KEYS[n]]
              ELSE /\ KEYS[n] \notin DOMAIN snap[p]
                   /\ Get(speed[p].mem, KEYS[n], -1) = before[p].mem[KEYS[n]]

\* C19 witness: tx_bytes of the second Interface failed after rx_bytes of
\* both and tx_bytes of the first had moved their remembered values.
C19_Witness ==
    /\ PackFailed
    /\ Len(speed) = 2
    /\ i = 2
    /\ j = 2
    /\ speed[1].mem["rx_bytes"] # before[1].mem["rx_bytes"]
    /\ speed[1].mem["tx_bytes"] # before[1].mem["tx_bytes"]
    /\ speed[2].mem["rx_bytes"] # before[2].mem["rx_bytes"]
    /\ speed[2].mem["tx_bytes"] = before[2].mem["tx_bytes"]

\* C20: the envelope's 'when' is taken before any counter of its snapshot is
\* read, so it is never later than the earliest of these reads; the envelope
\* emitted carries that value; and, the clock never running backwards, the
\* timestamps of successive envelopes never decrease.
C20_TimestampOrder ==
    [][ /\ sentWhen' >= sentWhen
        /\ (pc' \in {"pack", "emit", "sleep"} /\ readAt' # -1) => when' <= readAt'
        /\ pc' = "sleep" => sentWhen' = when'
      ]_vars

\* C20 witness: an envelope stamped 0 has been emitted whose counters were
\* all read after the clock had moved on.
C20_Witness ==
    /\ pc = "sleep"
    /\ sentWhen = 0
    /\ readAt = MaxClock
    /\ clock = MaxClock
    /\ reads = 2

====
